---- MODULE Spec2Model ----
(***************************************************************************)
(* Entity -> DTO converter (client/src/app/page.tsx).                      *)
(*                                                                         *)
(* Text is modelled as a sequence of lexemes (short strings): "\n" is the  *)
(* line break, " " a blank, every punctuation character is a lexeme of its *)
(* own and a word is cut into lexemes at the places the program's regular  *)
(* expressions look at (DocEntity is "Doc","Entity").  Every regular       *)
(* expression and string method of the source is an operator on lexeme     *)
(* sequences.                                                              *)
(***************************************************************************)
EXTENDS Integers, Sequences, FiniteSets, TLC

VARIABLES input, forceOptional, stripAudit, parsed, dtoCode, resDtoCode, errorShown,
          lines, scan, pc, captured,
          tsBase, tsWrap, tsType, resType

vars == <<input, forceOptional, stripAudit, parsed, dtoCode, resDtoCode, errorShown,
          lines, scan, pc, captured, tsBase, tsWrap, tsType, resType>>

pageVars == <<input, forceOptional, stripAudit, parsed, dtoCode, resDtoCode, errorShown>>
scanVars == <<lines, scan, pc, captured>>
typeVars == <<tsBase, tsWrap, tsType, resType>>

\* ---------------------------------------------------------------- bounds
MaxLines == 4
MaxScanLines == 4
MaxGenLines == 3
MaxNest == 3

\* ------------------------------------------------------- lexeme sequences
NL == "\n"
Whitespace == {" ", "  ", NL}
NonWord == Whitespace \cup {"@", "(", ")", "{", "}", "<", ">", "[", "]", ":", ";",
                            "?", ",", "'", "\"", "=>", "."}

IsWord(tok) == tok \notin NonWord

Last(s) == s[Len(s)]
Front(s) == SubSeq(s, 1, Len(s) - 1)

StartsWith(s, p) == Len(s) >= Len(p) /\ SubSeq(s, 1, Len(p)) = p

EndsWith(s, p) == Len(s) >= Len(p) /\ SubSeq(s, Len(s) - Len(p) + 1, Len(s)) = p

Includes(s, p) == \E k \in 1..(Len(s) - Len(p) + 1) : SubSeq(s, k, k + Len(p) - 1) = p

RECURSIVE TrimStart(_)
TrimStart(s) == IF s # <<>> /\ Head(s) \in Whitespace THEN TrimStart(Tail(s)) ELSE s

RECURSIVE TrimEnd(_)
TrimEnd(s) == IF s # <<>> /\ Last(s) \in Whitespace THEN TrimEnd(Front(s)) ELSE s

Trim(s) == TrimEnd(TrimStart(s))

StripSpaces(s) == SelectSeq(s, LAMBDA tok : tok \notin Whitespace)

RECURSIVE CountFrom(_, _, _)
CountFrom(s, tok, p) ==
    IF p > Len(s) THEN 0 ELSE (IF s[p] = tok THEN 1 ELSE 0) + CountFrom(s, tok, p + 1)

Count(s, tok) == CountFrom(s, tok, 1)

\* first index >= p of tok in s, 0 when there is none
RECURSIVE IndexOfFrom(_, _, _)
IndexOfFrom(s, tok, p) ==
    IF p > Len(s) THEN 0 ELSE IF s[p] = tok THEN p ELSE IndexOfFrom(s, tok, p + 1)

RECURSIVE JoinFrom(_, _)
JoinFrom(ls, k) ==
    IF k > Len(ls) THEN <<>>
    ELSE IF k = Len(ls) THEN ls[k]
    ELSE ls[k] \o <<NL>> \o JoinFrom(ls, k + 1)

\* Array.prototype.join("\n")
Join(ls) == JoinFrom(ls, 1)

\* String.prototype.split(/\r?\n/), from position p on
RECURSIVE SplitFrom(_, _)
SplitFrom(s, p) ==
    LET k == IndexOfFrom(s, NL, p)
    IN  IF k = 0 THEN <<SubSeq(s, p, Len(s))>>
        ELSE <<SubSeq(s, p, k - 1)>> \o SplitFrom(s, k + 1)

Split(s) == SplitFrom(s, 1)

\* ------------------------------------------------------ regular expressions
\* A pattern is a sequence of elements: one lexeme out of a set, \s*, \s+, \b.
Lit(S) == [k |-> "lit", v |-> S]
Ws0 == [k |-> "ws*", v |-> {}]
Ws1 == [k |-> "ws+", v |-> {}]
Wb == [k |-> "wb", v |-> {}]

RECURSIVE SkipWs(_, _)
SkipWs(s, p) == IF p <= Len(s) /\ s[p] \in Whitespace THEN SkipWs(s, p + 1) ELSE p

WordAt(s, p) == p >= 1 /\ p <= Len(s) /\ IsWord(s[p])

\* position after the match of pat at p, 0 when pat does not match at p
RECURSIVE MatchAt(_, _, _)
MatchAt(s, p, pat) ==
    IF pat = <<>> THEN p
    ELSE LET e == Head(pat) IN
         CASE e.k = "lit" -> IF p <= Len(s) /\ s[p] \in e.v THEN MatchAt(s, p + 1, Tail(pat)) ELSE 0
           [] e.k = "ws*" -> MatchAt(s, SkipWs(s, p), Tail(pat))
           [] e.k = "ws+" -> IF p <= Len(s) /\ s[p] \in Whitespace
                             THEN MatchAt(s, SkipWs(s, p), Tail(pat)) ELSE 0
           [] e.k = "wb"  -> IF WordAt(s, p - 1) # WordAt(s, p) THEN MatchAt(s, p, Tail(pat)) ELSE 0

Test(s, pat) == \E p \in 1..(Len(s) + 1) : MatchAt(s, p, pat) # 0

\* ------------------------------------------------------------ Type Resolver
ArrayOpen == <<"Array", "<">>
ArraySuffix == <<"[", "]">>

\* the resolver without its Array<...> branch
RECURSIVE toRelationResDtoTypeSuffixOnly(_)
toRelationResDtoTypeSuffixOnly(ty) ==
    LET t == Trim(ty) IN
    IF EndsWith(t, ArraySuffix)
    THEN toRelationResDtoTypeSuffixOnly(Trim(SubSeq(t, 1, Len(t) - 2))) \o ArraySuffix
    ELSE IF t # <<>> /\ Last(t) = "Entity" THEN Front(t) \o <<"ResDto">> ELSE t

RECURSIVE toRelationResDtoType(_)
toRelationResDtoType(ty) ==
    LET t == Trim(ty) IN
    IF Len(t) >= 4 /\ StartsWith(t, ArrayOpen) /\ Last(t) = ">"
    THEN toRelationResDtoType(SubSeq(t, 3, Len(t) - 1)) \o ArraySuffix
    ELSE IF EndsWith(t, ArraySuffix)
    THEN toRelationResDtoType(Trim(SubSeq(t, 1, Len(t) - 2))) \o ArraySuffix
    ELSE IF t # <<>> /\ Last(t) = "Entity" THEN Front(t) \o <<"ResDto">> ELSE t

\* ------------------------------------------------------------ Source Parser
Undefined == [defined |-> FALSE, from |-> 0, to |-> 0, text |-> <<>>]
Null == [absent |-> TRUE]

Modifiers == {"public", "private", "readonly"}
Digits == {"1"}

RECURSIVE WordRunEnd(_, _)
WordRunEnd(s, p) == IF WordAt(s, p) THEN WordRunEnd(s, p + 1) ELSE p

\* source.match(/export\s+class\s+(\w+)/): position of the captured name, 0 when no match
RECURSIVE classMatchFrom(_, _)
classMatchFrom(source, p) ==
    LET q == MatchAt(source, p, <<Lit({"export"}), Ws1, Lit({"class"}), Ws1>>)
    IN  IF p > Len(source) THEN 0
        ELSE IF q # 0 /\ WordAt(source, q) THEN q
        ELSE classMatchFrom(source, p + 1)

classMatch(source) == classMatchFrom(source, 1)

baseNameOf(className) ==
    IF Last(className) = "Entity" THEN Front(className) ELSE className

\* line.match(/^(?:public\s+|private\s+|readonly\s+)?([A-Za-z_][A-Za-z0-9_]*)\??:\s*([^;]+);/)
propMatch(line) ==
    LET start == IF Len(line) >= 2 /\ line[1] \in Modifiers /\ line[2] \in Whitespace
                 THEN SkipWs(line, 2) ELSE 1
        idEnd == WordRunEnd(line, start)
        colon == IF idEnd <= Len(line) /\ line[idEnd] = "?" THEN idEnd + 1 ELSE idEnd
        semis == {k \in (colon + 1)..Len(line) : line[k] = ";"}
        semi  == IF semis = {} THEN 0 ELSE CHOOSE k \in semis : \A m \in semis : k <= m
        ok    == /\ WordAt(line, start) /\ line[start] \notin Digits
                 /\ colon <= Len(line) /\ line[colon] = ":"
                 /\ semi > colon + 1
    IN  IF ok THEN [ok |-> TRUE, full |-> SubSeq(line, 1, semi), colon |-> colon,
                    name |-> SubSeq(line, start, idEnd - 1),
                    type |-> SubSeq(line, colon + 1, semi - 1)]
        ELSE [ok |-> FALSE, full |-> <<>>, colon |-> 0, name |-> <<>>, type |-> <<>>]

NullablePat == <<Lit({"nullable"}), Ws0, Lit({":"}), Ws0, Lit({"true"})>>

\* the inner for loop (lines 51-60): the text collected from line j on, the last line
\* it took and whether the depth came back to <= 0 (only then is i set to j)
RECURSIVE captureMeta(_, _, _, _)
captureMeta(ls, j, meta, depth) ==
    IF j > Len(ls) THEN [text |-> meta, to |-> Len(ls), closed |-> FALSE]
    ELSE LET l == ls[j]
             meta2 == (IF meta # <<>> THEN meta \o <<NL>> ELSE <<>>) \o l
             depth2 == depth + Count(l, "(") - Count(l, ")")
         IN  IF depth2 <= 0 THEN [text |-> meta2, to |-> j, closed |-> TRUE]
             ELSE captureMeta(ls, j + 1, meta2, depth2)

DecoTexts(decos) == [k \in 1..Len(decos) |-> decos[k].text]

InitScan == [i |-> 1, decoratorBuf |-> <<>>, pendingColumnMeta |-> Undefined, fields |-> <<>>]

FieldOf(st, m, optional) ==
    [name |-> m.name, tsType |-> Trim(m.type), optional |-> optional,
     decorators |-> st.decoratorBuf, rawColumnMeta |-> st.pendingColumnMeta, line |-> st.i]

\* the push of a field without the reset of the two buffers
EmitFieldNoReset(st, m, optional) ==
    [st EXCEPT !.fields = Append(st.fields, FieldOf(st, m, optional))]

\* lines 73-75: push the field, then clear decoratorBuf and pendingColumnMeta
EmitField(st, m, optional) ==
    [st EXCEPT !.fields = Append(st.fields, FieldOf(st, m, optional)),
               !.decoratorBuf = <<>>,
               !.pendingColumnMeta = Undefined]

\* one iteration of the outer for loop (lines 41-77), its i++ included; line numbers
\* are 1-based here.  A decorator, a captured metadata text and a field carry the
\* number of the source line they come from.
ScanStep(ls, st) ==
    LET line == Trim(ls[st.i])
        buf == Append(st.decoratorBuf, [line |-> st.i, text |-> line])
        cap == captureMeta(ls, st.i, <<>>, 0)
        m == propMatch(line)
        optional == \/ Last(m.full) = "?"
                    \/ Test(st.pendingColumnMeta.text \o <<NL>> \o Join(DecoTexts(st.decoratorBuf)),
                            NullablePat)
    IN  IF StartsWith(line, <<"@">>)
        THEN IF StartsWith(line, <<"@", "Column", "(">>) /\ Includes(line, <<"{">>)
             THEN [st EXCEPT !.i = (IF cap.closed THEN cap.to ELSE st.i) + 1,
                             !.decoratorBuf = buf,
                             !.pendingColumnMeta = [defined |-> TRUE, from |-> st.i,
                                                    to |-> cap.to, text |-> cap.text]]
             ELSE [st EXCEPT !.i = st.i + 1, !.decoratorBuf = buf]
        ELSE IF m.ok
        THEN [EmitField(st, m, optional) EXCEPT !.i = st.i + 1]
        ELSE [st EXCEPT !.i = st.i + 1]

RECURSIVE ScanAll(_, _)
ScanAll(ls, st) == IF st.i > Len(ls) THEN st ELSE ScanAll(ls, ScanStep(ls, st))

ParsedOf(source, fields) ==
    LET q == classMatch(source)
        className == SubSeq(source, q, WordRunEnd(source, q) - 1)
    IN  [className |-> className, baseName |-> baseNameOf(className), fields |-> fields]

\* the parser without the early return of line 32
parseEntityNoEarlyReturn(source) ==
    IF classMatch(source) = 0
    THEN [className |-> <<>>, baseName |-> <<>>, fields |-> ScanAll(Split(source), InitScan).fields]
    ELSE ParsedOf(source, ScanAll(Split(source), InitScan).fields)

parseEntity(source) ==
    IF classMatch(source) = 0 THEN Null
    ELSE ParsedOf(source, ScanAll(Split(source), InitScan).fields)

\* ------------------------------------------------------------------ inputs
ClassLine == <<"export", " ", "class", " ", "Doc", "Entity", " ", "{">>
ColOpen == <<"  ", "@", "Column", "(", "{">>
ColNullable == <<"@", "Column", "(", "{", " ", "nullable", ":", " ", "true", " ", "}", ")">>
AttrNullable == <<"  ", "nullable", ":", " ", "true", ",">>
ColClose == <<"}", ")">>
PkLine == <<"@", "PrimaryGeneratedColumn", "(", ")">>
PropTitle == <<"  ", "title", ":", " ", "string", ";">>
PropName == <<"name", "?", ":", " ", "string", ";">>
PropId == <<"public", " ", "id", ":", " ", "number", ";">>

ScanVocab == {ColOpen, ColNullable, AttrNullable, ColClose, PkLine, PropTitle, PropName, PropId}

SeqsUpTo(S, n) == UNION {[1..k -> S] : k \in 0..n}

ScanSources ==
    {Join(<<ClassLine>> \o b) : b \in SeqsUpTo(ScanVocab, MaxScanLines)}
    \cup {Join(b) : b \in SeqsUpTo(ScanVocab, 1)}

TypeBases == {<<"Doc", "Entity">>, <<"Comment", "Entity">>, <<"Doc">>, <<"string">>,
              <<"Entity", "Ref">>, <<"Entity">>}

RECURSIVE Wrap(_, _)
Wrap(base, ws) ==
    IF ws = <<>> THEN base
    ELSE IF Last(ws) = "generic" THEN ArrayOpen \o Wrap(base, Front(ws)) \o <<">">>
    ELSE Wrap(base, Front(ws)) \o ArraySuffix

\* ------------------------------------------------------------------- idle
PageIdle ==
    /\ input = <<>> /\ forceOptional = TRUE /\ stripAudit = TRUE
    /\ parsed = Null /\ dtoCode = <<>> /\ resDtoCode = <<>> /\ errorShown = FALSE

ScanIdle == lines = <<>> /\ scan = InitScan /\ pc = "idle" /\ captured = {}

TypeIdle == tsBase = <<>> /\ tsWrap = <<>> /\ tsType = <<>> /\ resType = <<>>

\* ------------------------------------------------- parseEntity, step by step
InitParse ==
    /\ input \in ScanSources
    /\ forceOptional = TRUE /\ stripAudit = TRUE
    /\ parsed = Null /\ dtoCode = <<>> /\ resDtoCode = <<>> /\ errorShown = FALSE
    /\ lines = <<>> /\ scan = InitScan /\ pc = "start" /\ captured = {}
    /\ TypeIdle

\* lines 30-32: no exported class, return null
ParseNoClass ==
    /\ pc = "start"
    /\ classMatch(input) = 0
    /\ pc' = "done"
    /\ parsed' = Null
    /\ UNCHANGED <<input, forceOptional, stripAudit, dtoCode, resDtoCode, errorShown, lines, scan, captured>>
    /\ UNCHANGED typeVars

\* lines 33-39
ParseBegin ==
    /\ pc = "start"
    /\ classMatch(input) # 0
    /\ lines' = Split(input)
    /\ scan' = InitScan
    /\ pc' = "loop"
    /\ UNCHANGED <<pageVars, captured, typeVars>>

\* lines 41-77, one iteration
ParseLine ==
    /\ pc = "loop"
    /\ scan.i <= Len(lines)
    /\ scan' = ScanStep(lines, scan)
    /\ captured' = captured \cup
         (IF scan'.pendingColumnMeta.defined /\ scan'.pendingColumnMeta.from = scan.i
          THEN scan.i .. scan'.pendingColumnMeta.to ELSE {})
    /\ UNCHANGED <<pageVars, lines, pc, typeVars>>

\* line 79
ParseReturn ==
    /\ pc = "loop"
    /\ scan.i > Len(lines)
    /\ parsed' = ParsedOf(input, scan.fields)
    /\ pc' = "done"
    /\ UNCHANGED <<input, forceOptional, stripAudit, dtoCode, resDtoCode, errorShown, lines, scan, captured>>
    /\ UNCHANGED typeVars

NextParse == ParseNoClass \/ ParseBegin \/ ParseLine \/ ParseReturn

SpecParse == InitParse /\ [][NextParse]_vars

\* --------------------------------------------------------- the type resolver
InitType ==
    /\ PageIdle /\ ScanIdle
    /\ tsBase \in TypeBases
    /\ tsWrap \in SeqsUpTo({"generic", "suffix"}, MaxNest)
    /\ tsType = Wrap(tsBase, tsWrap)
    /\ resType = <<>>

Resolve ==
    /\ resType = <<>>
    /\ resType' = toRelationResDtoType(tsType)
    /\ UNCHANGED <<pageVars, scanVars, tsBase, tsWrap, tsType>>

NextType == Resolve

SpecType == InitType /\ [][NextType]_vars

\* ------------------------------------------------------- Field Classifiers
RelationNames == {"OneToOne", "OneToMany", "ManyToOne", "ManyToMany", "JoinColumn", "JoinTable"}
AuditNames == {"CreateDateColumn", "UpdateDateColumn", "DeleteDateColumn"}
Quotes == {"'", "\""}
TinyIntWords == {"tinyint", "TINYINT", "TinyInt"}
DateWords == {"date", "datetime"}

SomeDecorator(field, names) ==
    \E k \in 1..Len(field.decorators) :
        Test(field.decorators[k].text, <<Lit({"@"}), Lit(names), Wb>>)

isRelation(field) == SomeDecorator(field, RelationNames)

isGeneratedPrimary(field) == SomeDecorator(field, {"PrimaryGeneratedColumn"})

isAudit(field) == SomeDecorator(field, AuditNames)

isTinyIntBoolean(field) ==
    LET meta == field.rawColumnMeta.text IN
    /\ Test(meta, <<Lit({"@"}), Lit({"Column"}), Lit({"("})>>)
    /\ Test(meta, <<Lit({"type"}), Ws0, Lit({":"}), Ws0, Lit(Quotes), Lit(TinyIntWords), Lit(Quotes)>>)
    /\ Test(meta, <<Lit({"width"}), Ws0, Lit({":"}), Ws0, Lit({"1"}), Wb>>)

mapTsType(field) == Trim(field.tsType)

\* t === "Date" || /type\s*:\s*['\"][a-z]*date/.test(f.rawColumnMeta || "")
isDateColumn(field) ==
    \/ Trim(field.tsType) = <<"Date">>
    \/ Test(field.rawColumnMeta.text, <<Lit({"type"}), Ws0, Lit({":"}), Ws0, Lit(Quotes), Lit(DateWords)>>)

\* ------------------------------------------------------ validators, imports
getValidatorDecorators(field, required) ==
    LET t == StripSpaces(field.tsType)
        byType == IF Test(t, <<Lit({"Enum"}), Wb>>)
                  THEN << <<"@IsEnum(">> \o Trim(field.tsType) \o <<")">> >>
                  ELSE IF t = <<"string">> THEN << <<"@IsString()">> >>
                  ELSE IF t = <<"Date">> THEN << <<"@IsDate()">> >>
                  ELSE IF t = <<"number">> THEN << <<"@IsInt()">> >>
                  ELSE <<>>
    IN  byType \o (IF ~required THEN << <<"@IsOptional()">> >> ELSE <<>>)
               \o (IF required /\ t = <<"string">> THEN << <<"@IsNotEmpty()">> >> ELSE <<>>)

RECURSIVE Dedup(_)
Dedup(s) == IF s = <<>> THEN <<>>
            ELSE LET d == Dedup(Front(s))
                 IN  IF \E k \in 1..Len(d) : d[k] = Last(s) THEN d ELSE Append(d, Last(s))

extractEnumImports(source, fields) ==
    LET isEnum(t) == Test(t, <<Wb, Lit({"Enum"}), Wb>>) \/ (t # <<>> /\ Last(t) = "Enum")
        enumTypeNames == {Trim(fields[k].tsType) : k \in {q \in 1..Len(fields) : isEnum(Trim(fields[q].tsType))}}
        importLines == SelectSeq(Split(source), LAMBDA l : StartsWith(Trim(l), <<"import">>))
        selected == SelectSeq(importLines, LAMBDA l : \E name \in enumTypeNames : Includes(l, name))
    IN  Dedup(selected)

\* ---------------------------------------------------- Request DTO generator
Indent(ds) == [k \in 1..Len(ds) |-> <<"  ">> \o ds[k]]

RECURSIVE Flatten(_)
Flatten(ss) == IF ss = <<>> THEN <<>> ELSE Head(ss) \o Flatten(Tail(ss))

DocFieldLines(f, opts) ==
    LET isRequired == ~opts.forceOptional /\ ~f.optional /\ ~isGeneratedPrimary(f)
        t == mapTsType(f)
        isTiny == isTinyIntBoolean(f)
    IN  (IF isTiny THEN << <<"  ", "@Transform(({ value }) => boolTransformer.to(value))">> >> ELSE <<>>)
        \o (IF isDateColumn(f) THEN << <<"  ", "@Transform(({ value }) => dateTransformer.to(value))">> >> ELSE <<>>)
        \o Indent(getValidatorDecorators(f, ~isRequired))
        \o << <<"  ">> \o f.name \o <<":", " ">> \o (IF isTiny THEN <<"number">> ELSE t) \o <<";">>, <<>> >>

\* the filter with the relations left in
RetainedFieldsWithRelations(fields, opts) == SelectSeq(fields, LAMBDA f : ~isAudit(f))

\* the filter with the audit fields dropped only when stripAudit is set
RetainedFieldsByStripAudit(fields, opts) ==
    SelectSeq(fields, LAMBDA f : ~isRelation(f) /\ (~opts.stripAudit \/ ~isAudit(f)))

\* line 167
RetainedFields(fields, opts) == SelectSeq(fields, LAMBDA f : ~isRelation(f) /\ ~isAudit(f))

genDocDto(source, p, opts) ==
    LET className == p.baseName \o <<"Dto">>
        fields == RetainedFields(p.fields, opts)
    IN  Join(<< <<"import { IsString, IsOptional, IsInt, IsNotEmpty, IsDate, IsEnum } from 'class-validator';">>,
                <<"import { Transform } from 'class-transformer';">>,
                <<"import { PartialType } from '@nestjs/mapped-types';">>,
                <<"import { CommonDto } from 'src/common/dto/common.dto';">>,
                <<"import { boolTransformer, dateTransformer } from 'src/common/util/transformer';">> >>
             \o extractEnumImports(source, p.fields)
             \o << <<>>, <<"export", " ", "class", " ">> \o className \o <<" ", "extends", " ", "CommonDto", " ", "{">> >>
             \o Flatten([k \in 1..Len(fields) |-> DocFieldLines(fields[k], opts)])
             \o << <<"}">>, <<>>,
                   <<"export", " ", "class", " ">> \o p.baseName
                      \o <<"ReqDto", " ", "extends", " ", "PartialType", "(">> \o className \o <<")", " ", "{", "}">> >>)

\* --------------------------------------------------- Response DTO generator
\* the type choice with the tinyint test ahead of the relation test
ResTypeOfTinyFirst(f) ==
    IF isTinyIntBoolean(f) THEN <<"boolean">>
    ELSE IF isRelation(f) THEN toRelationResDtoType(Trim(f.tsType))
    ELSE IF isAudit(f) /\ isDateColumn(f) THEN <<"Date">>
    ELSE IF isDateColumn(f) THEN <<"string">>
    ELSE Trim(f.tsType)

\* lines 220-228
ResTypeOf(f) ==
    IF isRelation(f) THEN toRelationResDtoType(Trim(f.tsType))
    ELSE IF isTinyIntBoolean(f) THEN <<"boolean">>
    ELSE IF isAudit(f) /\ isDateColumn(f) THEN <<"Date">>
    ELSE IF isDateColumn(f) THEN <<"string">>
    ELSE Trim(f.tsType)

ResFieldLines(f) ==
    (IF ~isRelation(f) /\ isTinyIntBoolean(f)
     THEN << <<"  ", "@Transform(({ value }) => boolTransformer.from(value))">> >> ELSE <<>>)
    \o (IF ~isRelation(f) /\ ~isAudit(f) /\ isDateColumn(f)
        THEN << <<"  ", "@Transform(({ value }) => dateTransformer.from(value))">> >> ELSE <<>>)
    \o << <<"  ", "@Expose()">>,
          <<"  ">> \o f.name \o <<":", " ">> \o ResTypeOf(f) \o <<";">>, <<>> >>

genResponseDto(source, p) ==
    Join(<< <<"import { Expose, Transform } from 'class-transformer';">>,
            <<"import { boolTransformer, dateTransformer } from 'src/common/util/transformer';">> >>
         \o extractEnumImports(source, p.fields)
         \o << <<>>, <<"export", " ", "class", " ">> \o p.baseName \o <<"ResDto", " ", "{">> >>
         \o Flatten([k \in 1..Len(p.fields) |-> ResFieldLines(p.fields[k])])
         \o << <<"}">> >>)

\* -------------------------------------------------------- EntityToDtoPage
IsNull(p) == "absent" \in DOMAIN p

parsedMemo(inp) == IF Trim(inp) # <<>> THEN parseEntity(inp) ELSE Null

dtoCodeMemo(inp, p, fo, sa) ==
    IF ~IsNull(p) THEN genDocDto(inp, p, [forceOptional |-> fo, stripAudit |-> sa]) ELSE <<>>

resDtoCodeMemo(inp, p) == IF ~IsNull(p) THEN genResponseDto(inp, p) ELSE <<>>

\* line 295: the error message is rendered
ErrorShownFor(inp, p) == IsNull(p) /\ Trim(inp) # <<>>

\* one render of the component with the given state (lines 257-259, 295-297)
Render(inp, fo, sa) ==
    /\ input' = inp
    /\ forceOptional' = fo
    /\ stripAudit' = sa
    /\ parsed' = parsedMemo(inp)
    /\ dtoCode' = dtoCodeMemo(inp, parsed', fo, sa)
    /\ resDtoCode' = resDtoCodeMemo(inp, parsed')
    /\ errorShown' = ErrorShownFor(inp, parsed')

RelLine == <<"@", "OneToMany", "(", "(", ")", " ", "=>", " ", "Comment", "Entity", ")">>
AuditLine == <<"@", "CreateDateColumn", "(", ")">>
ColTiny == <<"@", "Column", "(", "{", " ", "type", ":", " ", "'", "tinyint", "'", ",", " ",
             "width", ":", " ", "1", " ", "}", ")">>
PropCreatedAt == <<"createdAt", ":", " ", "Date", ";">>
PropComments == <<"comments", ":", " ", "Comment", "Entity", "[", "]", ";">>

PageVocab == {ClassLine, PkLine, ColNullable, AuditLine, PropTitle, PropComments}

Init ==
    /\ input = <<>> /\ forceOptional = TRUE /\ stripAudit = TRUE
    /\ parsed = Null /\ dtoCode = <<>> /\ resDtoCode = <<>> /\ errorShown = FALSE
    /\ ScanIdle /\ TypeIdle

\* onChange of the textarea: a line is typed at the end of the text
TypeLine ==
    /\ \E l \in PageVocab :
        /\ input = <<>> \/ Count(input, NL) + 1 < MaxLines
        /\ Render(IF input = <<>> THEN l ELSE input \o <<NL>> \o l, forceOptional, stripAudit)
    /\ UNCHANGED <<scanVars, typeVars>>

\* onChange of the textarea: the last line is deleted
DeleteLine ==
    /\ input # <<>>
    /\ Render(Join(Front(Split(input))), forceOptional, stripAudit)
    /\ UNCHANGED <<scanVars, typeVars>>

\* onChange of the two checkboxes
SetForceOptional ==
    /\ Render(input, ~forceOptional, stripAudit)
    /\ UNCHANGED <<scanVars, typeVars>>

SetStripAudit ==
    /\ Render(input, forceOptional, ~stripAudit)
    /\ UNCHANGED <<scanVars, typeVars>>

Next == TypeLine \/ DeleteLine \/ SetForceOptional \/ SetStripAudit

Spec == Init /\ [][Next]_vars

\* ------------------------------------- the generators on one entity source
GenVocab == {PkLine, ColTiny, ColNullable, RelLine, AuditLine,
             PropTitle, PropName, PropCreatedAt, PropComments}

GenSources == {Join(<<ClassLine>> \o b) : b \in SeqsUpTo(GenVocab, MaxGenLines)}

InitGen ==
    /\ input \in GenSources
    /\ forceOptional \in BOOLEAN /\ stripAudit \in BOOLEAN
    /\ parsed = Null /\ dtoCode = <<>> /\ resDtoCode = <<>> /\ errorShown = FALSE
    /\ lines = <<>> /\ scan = InitScan /\ pc = "pasted" /\ captured = {}
    /\ TypeIdle

\* the render that follows setInput with a pasted entity
Generate ==
    /\ pc = "pasted"
    /\ Render(input, forceOptional, stripAudit)
    /\ pc' = "shown"
    /\ UNCHANGED <<lines, scan, captured, typeVars>>

NextGen == Generate

SpecGen == InitGen /\ [][NextGen]_vars

\* ================================================================ properties
\* reading a generated text back: its field declarations, in order
IsDeclLine(l) == Len(l) >= 5 /\ l[1] = "  " /\ Last(l) = ";"

DeclIndexes(ls) == SelectSeq([k \in 1..Len(ls) |-> k], LAMBDA k : IsDeclLine(ls[k]))

DeclName(l) == SubSeq(l, 2, IndexOfFrom(l, ":", 1) - 1)

DeclType(l) == SubSeq(l, IndexOfFrom(l, ":", 1) + 2, Len(l) - 1)

DeclNames(text) ==
    LET ls == Split(text)
        ix == DeclIndexes(ls)
    IN  [k \in 1..Len(ix) |-> DeclName(ls[ix[k]])]

\* the lines emitted for the k-th declaration: those after the previous declaration
BlockOf(ls, ix, k) ==
    {ls[q] : q \in ((IF k = 1 THEN 0 ELSE ix[k - 1]) + 1) .. (ix[k] - 1)}

NamesOf(fields) == [k \in 1..Len(fields) |-> fields[k].name]

Kept(fields) == SelectSeq(fields, LAMBDA f : ~isRelation(f) /\ ~isAudit(f))

HasOptional(block) == <<"  ", "@IsOptional()">> \in block

HasNotEmpty(block) == <<"  ", "@IsNotEmpty()">> \in block

Shown == pc = "shown" /\ ~IsNull(parsed)

\* C1: for every field kept by genDocDto, @IsOptional is emitted iff the field is not
\* required and @IsNotEmpty iff it is required and of type string, where required =
\* not forceOptional and not field.optional and not isGeneratedPrimary(field).
C1_ValidatorsFollowRequired ==
    Shown =>
        LET ls == Split(dtoCode)
            ix == DeclIndexes(ls)
            kept == Kept(parsed.fields)
        IN  /\ Len(ix) = Len(kept)
            /\ \A k \in 1..Len(kept) :
                 LET required == ~forceOptional /\ ~kept[k].optional /\ ~isGeneratedPrimary(kept[k])
                 IN  /\ HasOptional(BlockOf(ls, ix, k)) <=> ~required
                     /\ HasNotEmpty(BlockOf(ls, ix, k)) <=>
                            (required /\ StripSpaces(kept[k].tsType) = <<"string">>)

\* C2: a generated-primary field emitted by genDocDto carries @IsOptional and never
\* @IsNotEmpty, whatever forceOptional and its declared type are.
C2_GeneratedPrimaryNeverRequired ==
    Shown =>
        LET ls == Split(dtoCode)
            ix == DeclIndexes(ls)
            kept == Kept(parsed.fields)
        IN  \A k \in 1..Len(kept) :
                (k <= Len(ix) /\ isGeneratedPrimary(kept[k])) =>
                    HasOptional(BlockOf(ls, ix, k)) /\ ~HasNotEmpty(BlockOf(ls, ix, k))

\* C4: a relation field yields no declaration in the request DTO (its declarations are,
\* in order, those of the fields that are neither relation nor audit) and exactly one
\* exposed declaration in the response DTO, at its declaration-order position.
C4_RelationsOnlyInResponse ==
    Shown =>
        LET ls == Split(resDtoCode)
            ix == DeclIndexes(ls)
        IN  /\ DeclNames(dtoCode) = NamesOf(Kept(parsed.fields))
            /\ Len(ix) = Len(parsed.fields)
            /\ \A k \in 1..Len(parsed.fields) :
                 isRelation(parsed.fields[k]) =>
                    /\ DeclName(ls[ix[k]]) = parsed.fields[k].name
                    /\ ls[ix[k] - 1] = <<"  ", "@Expose()">>

C4_Witness ==
    /\ Shown
    /\ Len(parsed.fields) >= 2
    /\ isRelation(parsed.fields[2]) /\ ~isRelation(parsed.fields[1]) /\ ~isAudit(parsed.fields[1])
    /\ Len(DeclNames(dtoCode)) = 1
    /\ Len(DeclNames(resDtoCode)) = 2

\* C5: stripAudit does not influence the request DTO: the text is the same for the other
\* value of stripAudit, and no audit field is declared in it.
C5_StripAuditHasNoEffect ==
    Shown =>
        /\ dtoCode = genDocDto(input, parsed, [forceOptional |-> forceOptional, stripAudit |-> ~stripAudit])
        /\ Len(DeclNames(dtoCode)) = Len(SelectSeq(parsed.fields, LAMBDA f : ~isAudit(f) /\ ~isRelation(f)))

C5_Witness ==
    /\ Shown
    /\ ~stripAudit
    /\ Len(parsed.fields) = 2
    /\ isAudit(parsed.fields[1]) /\ ~isAudit(parsed.fields[2]) /\ ~isRelation(parsed.fields[2])
    /\ DeclNames(dtoCode) = <<parsed.fields[2].name>>

\* C8: the type genResponseDto declares for a field is given by the first rule that
\* applies: relation -> the resolver; tinyint(1) -> boolean; audit and date -> Date;
\* date -> string; otherwise the declared type.
C8_ResponseTypePriority ==
    Shown =>
        LET ls == Split(resDtoCode)
            ix == DeclIndexes(ls)
        IN  /\ Len(ix) = Len(parsed.fields)
            /\ \A k \in 1..Len(parsed.fields) :
                 LET f == parsed.fields[k]
                     ty == DeclType(ls[ix[k]])
                 IN  /\ isRelation(f) => ty = toRelationResDtoType(Trim(f.tsType))
                     /\ (~isRelation(f) /\ isTinyIntBoolean(f)) => ty = <<"boolean">>
                     /\ (~isRelation(f) /\ ~isTinyIntBoolean(f) /\ isAudit(f) /\ isDateColumn(f))
                            => ty = <<"Date">>
                     /\ (~isRelation(f) /\ ~isTinyIntBoolean(f) /\ ~isAudit(f) /\ isDateColumn(f))
                            => ty = <<"string">>
                     /\ (~isRelation(f) /\ ~isTinyIntBoolean(f) /\ ~isDateColumn(f))
                            => ty = Trim(f.tsType)

C8_Witness ==
    /\ Shown
    /\ Len(parsed.fields) = 1
    /\ isRelation(parsed.fields[1]) /\ isTinyIntBoolean(parsed.fields[1])
    /\ DeclType(Split(resDtoCode)[DeclIndexes(Split(resDtoCode))[1]])
         = <<"Comment", "ResDto", "[", "]">>

\* the declaration on this source line has a '?' directly after the identifier
UsesOptionalMarker(l) ==
    LET m == propMatch(Trim(l)) IN m.ok /\ m.colon > 1 /\ Trim(l)[m.colon - 1] = "?"

HasNullableMarker(f) ==
    \/ Test(f.rawColumnMeta.text, NullablePat)
    \/ \E k \in 1..Len(f.decorators) : Test(f.decorators[k].text, NullablePat)

\* C3: Field.optional is true iff the declaration used the optional marker or the text
\* of its decorators / column metadata contains nullable: true.
C3_OptionalIffMarkerOrNullable ==
    (pc = "done" /\ ~IsNull(parsed)) =>
        \A k \in 1..Len(parsed.fields) :
            LET f == parsed.fields[k]
            IN  f.optional <=> (UsesOptionalMarker(lines[f.line]) \/ HasNullableMarker(f))

DecoLines(f) == {f.decorators[k].line : k \in 1..Len(f.decorators)}

IsDecoratorLine(l) == StartsWith(Trim(l), <<"@">>)

\* C9: decoratorBuf and pendingColumnMeta are consumed once per emitted Field and reset
\* right after: no decorator line and no captured metadata text is attached to two
\* Fields, and a Field that follows another with no decorator line in between has no
\* decorators and no column metadata.
C9_BuffersConsumedOnce ==
    pc = "loop" =>
        LET F == scan.fields IN
        /\ \A a, b \in 1..Len(F) :
             a < b =>
                /\ DecoLines(F[a]) \cap DecoLines(F[b]) = {}
                /\ (F[a].rawColumnMeta.defined /\ F[b].rawColumnMeta.defined)
                      => F[a].rawColumnMeta.from # F[b].rawColumnMeta.from
        /\ \A k \in 2..Len(F) :
             (\A q \in (F[k - 1].line + 1)..(F[k].line - 1) : ~IsDecoratorLine(lines[q]))
                => F[k].decorators = <<>> /\ ~F[k].rawColumnMeta.defined
        /\ (F # <<>> /\ Last(F).line = scan.i - 1)
                => scan.decoratorBuf = <<>> /\ ~scan.pendingColumnMeta.defined

C9_Witness ==
    /\ pc = "loop"
    /\ Len(scan.fields) = 2
    /\ scan.fields[1].decorators # <<>> /\ scan.fields[1].rawColumnMeta.defined
    /\ scan.fields[2].line = scan.fields[1].line + 1
    /\ scan.fields[2].decorators = <<>> /\ ~scan.fields[2].rawColumnMeta.defined

\* C10: the outer scan is advanced past every line a metadata capture consumed: the
\* line about to be examined is in no captured text, also when the capture ran to the
\* end of the source.
C10_CapturedLinesNotReexamined ==
    (pc = "loop" /\ scan.i <= Len(lines)) => scan.i \notin captured

\* C6: n wrappers (Array<...> or ...[], in any combination) around BEntity resolve to
\* BResDto followed by n [] suffixes; a name not ending in Entity is kept.
C6_ResolverUnwrapsEveryNesting ==
    resType # <<>> =>
        resType = (IF Last(tsBase) = "Entity" THEN Front(tsBase) \o <<"ResDto">> ELSE tsBase)
                  \o Flatten([k \in 1..Len(tsWrap) |-> <<"[", "]">>])

C6_Witness ==
    /\ tsBase = <<"Doc", "Entity">>
    /\ tsWrap = <<"suffix", "generic">>
    /\ tsType = <<"Array", "<", "Doc", "Entity", "[", "]", ">">>
    /\ resType = <<"Doc", "ResDto", "[", "]", "[", "]">>

\* C7: generation is all-or-nothing for the current input: with an exported class in the
\* input both artifacts are the non-empty generator outputs for the current input and
\* options; without one nothing is parsed, both artifacts are empty and the error
\* message is shown exactly when the input is not blank.
C7_AllOrNothing ==
    pc = "idle" =>
        IF classMatch(input) # 0
        THEN /\ ~IsNull(parsed)
             /\ parsed.className = <<"Doc", "Entity">>
             /\ dtoCode # <<>> /\ resDtoCode # <<>>
             /\ dtoCode = genDocDto(input, parseEntity(input),
                                    [forceOptional |-> forceOptional, stripAudit |-> stripAudit])
             /\ resDtoCode = genResponseDto(input, parseEntity(input))
             /\ ~errorShown
        ELSE /\ IsNull(parsed)
             /\ dtoCode = <<>> /\ resDtoCode = <<>>
             /\ errorShown <=> (Trim(input) # <<>>)

C7_Witness ==
    /\ pc = "idle"
    /\ input = PropTitle
    /\ ~forceOptional
    /\ errorShown /\ IsNull(parsed) /\ dtoCode = <<>> /\ resDtoCode = <<>>

====
